---- MODULE Spec2Model ----
(***************************************************************************)
(* KubePress WordPress controller: the three resource reconcilers          *)
(* (ReconcilePVC, ReconcileConfigMap, ReconcileDeployment) against a       *)
(* Kubernetes object store with optimistic concurrency, together with the  *)
(* pure helpers they call.  Strings are TLA+ strings; parsing and          *)
(* formatting are computed character by character.                         *)
(***************************************************************************)
EXTENDS Integers, Sequences, FiniteSets, TLC

VARIABLES
  wp,      \* the WordPressSite (the Intent) as last written by the user
  pvc,     \* store: the PersistentVolumeClaim, or Absent
  cm,      \* store: the ConfigMap, or Absent
  dep,     \* store: the Deployment, or Absent
  fresh,   \* per store object, the passes whose last Get is still current
  pass,    \* per reconciliation pass: position, locals, result
  now,     \* metav1.Now().Unix()
  events,  \* number of environment events so far (edits, drift, faults, ticks)
  osenv,   \* the operator's process environment (os.Getenv)
  hist,    \* history of finished passes, for stating the properties
  ini,     \* the php.ini computation alone: input, outputs, iteration orders
  call     \* one call of a pure helper: its arguments and, once done, its result

vars == <<wp, pvc, cm, dep, fresh, pass, now, events, osenv, hist, ini, call>>

(***************************************************************************)
(* Bounds of the model.                                                    *)
(***************************************************************************)
MaxEvents == 2
MaxConcEvents == 1
MaxOrders == 3
MaxComputations == 2

\* The store's not-found.
Absent == [absent |-> TRUE]

\* History: quiet, the last pass ran all reconcilers to success and nothing
\* changed since; owed, changed content was stored and the restart stamp is
\* still missing; base, the store when the interleaved passes began; raced,
\* a pass has lost a race since.
NoBase == [none |-> TRUE]
NoHistory == [quiet |-> FALSE, owed |-> FALSE, base |-> NoBase, raced |-> FALSE]
NoKey == "<no php.ini key>"

(***************************************************************************)
(* Strings.                                                                *)
(***************************************************************************)
Char(s, i) == SubSeq(s, i, i)

\* The characters the model uses, in byte order.
ByteOrder == "\n .0123456789=ABCDEFGHIJKLMNOPQRSTUVWXYZ_abcdefghijklmnopqrstuvwxyz"

OrdTable ==
  [c \in {Char(ByteOrder, i) : i \in 1..Len(ByteOrder)} |->
     CHOOSE i \in 1..Len(ByteOrder) : Char(ByteOrder, i) = c]

Ord(c) == OrdTable[c]

\* Go's string < : bytewise lexicographic.
RECURSIVE StrLessFrom(_, _, _)
StrLessFrom(a, b, i) ==
  IF i > Len(b) THEN FALSE
  ELSE IF i > Len(a) THEN TRUE
  ELSE IF Ord(Char(a, i)) < Ord(Char(b, i)) THEN TRUE
  ELSE IF Ord(Char(a, i)) > Ord(Char(b, i)) THEN FALSE
  ELSE StrLessFrom(a, b, i + 1)

StrLess(a, b) == StrLessFrom(a, b, 1)

Digits == {"0", "1", "2", "3", "4", "5", "6", "7", "8", "9"}

DigitVal(c) == Ord(c) - Ord("0")

DigitChar(d) == Char("0123456789", d + 1)

\* Length of the longest run of decimal digits of s starting at position i.
RECURSIVE DigitRun(_, _)
DigitRun(s, i) ==
  IF i <= Len(s) /\ Char(s, i) \in Digits THEN 1 + DigitRun(s, i + 1) ELSE 0

RECURSIVE Atoi(_)
Atoi(s) ==
  IF s = "" THEN 0 ELSE 10 * Atoi(SubSeq(s, 1, Len(s) - 1)) + DigitVal(Char(s, Len(s)))

\* fmt.Sprintf("%d", n)
RECURSIVE Itoa(_)
Itoa(n) ==
  IF n < 0 THEN "-" \o Itoa(0 - n)
  ELSE IF n < 10 THEN DigitChar(n)
  ELSE Itoa(n \div 10) \o DigitChar(n % 10)

RECURSIVE SpaceRun(_, _)
SpaceRun(s, i) ==
  IF i <= Len(s) /\ Char(s, i) = " " THEN 1 + SpaceRun(s, i + 1) ELSE 0

RECURSIVE TokenRun(_, _)
TokenRun(s, i) ==
  IF i <= Len(s) /\ Char(s, i) # " " /\ Char(s, i) # "\n" THEN 1 + TokenRun(s, i + 1) ELSE 0

(***************************************************************************)
(* Go's int on the operator's 64-bit platforms: a two's-complement word,   *)
(* held as four 16-bit limbs, least significant first.  Arithmetic wraps.  *)
(***************************************************************************)
Limb == 65536

Zero64 == <<0, 0, 0, 0>>

MinInt64 == <<0, 0, 0, 32768>>

IsNeg64(x) == x[4] >= 32768

\* x * m + c modulo 2^64, limbs i and up, for small m and c.
RECURSIVE MulAddFrom(_, _, _, _)
MulAddFrom(x, m, c, i) ==
  IF i > 4 THEN <<>>
  ELSE <<(x[i] * m + c) % Limb>> \o MulAddFrom(x, m, (x[i] * m + c) \div Limb, i + 1)

MulAdd64(x, m, c) == MulAddFrom(x, m, c, 1)

\* What x * m + c carries out of the word.
RECURSIVE CarryFrom(_, _, _, _)
CarryFrom(x, m, c, i) ==
  IF i > 4 THEN c ELSE CarryFrom(x, m, (x[i] * m + c) \div Limb, i + 1)

Neg64(x) == MulAdd64([i \in 1..4 |-> Limb - 1 - x[i]], 1, 1)

\* Unsigned x divided by a small d: quotient limbs i down to 1, and remainder.
RECURSIVE DivFrom(_, _, _, _)
DivFrom(x, d, r, i) ==
  IF i < 1 THEN <<>>
  ELSE DivFrom(x, d, (r * Limb + x[i]) % d, i - 1) \o <<(r * Limb + x[i]) \div d>>

RECURSIVE RemFrom(_, _, _, _)
RemFrom(x, d, r, i) ==
  IF i < 1 THEN r ELSE RemFrom(x, d, (r * Limb + x[i]) % d, i - 1)

UDiv64(x, d) == DivFrom(x, d, 0, 4)

URem64(x, d) == RemFrom(x, d, 0, 4)

\* Go's / on int truncates toward zero.
Quo64(x, d) == IF IsNeg64(x) THEN Neg64(UDiv64(Neg64(x), d)) ELSE UDiv64(x, d)

\* strconv.ParseInt of a run of decimal digits: the magnitude, and whether it
\* left the word.
RECURSIVE ParseMag(_)
ParseMag(s) ==
  IF s = "" THEN [ovf |-> FALSE, v |-> Zero64]
  ELSE LET p == ParseMag(SubSeq(s, 1, Len(s) - 1))
           d == DigitVal(Char(s, Len(s)))
       IN  [ovf |-> p.ovf \/ CarryFrom(p.v, 10, d, 1) # 0, v |-> MulAdd64(p.v, 10, d)]

\* fmt.Sprintf("%d", x)
RECURSIVE Decimal64(_)
Decimal64(x) ==
  IF x = Zero64 THEN "" ELSE Decimal64(UDiv64(x, 10)) \o DigitChar(URem64(x, 10))

Itoa64(x) ==
  IF x = Zero64 THEN "0"
  ELSE IF IsNeg64(x) THEN "-" \o Decimal64(Neg64(x))
  ELSE Decimal64(x)

(***************************************************************************)
(* helpers.go: GoMemoryToPHPMemory.  fmt.Sscanf(goMem, "%d%s", ...) skips  *)
(* spaces, reads an optionally signed run of decimal digits that must fit  *)
(* the int, skips spaces, reads a non-empty run of non-space characters    *)
(* and ignores the rest of the input.                                      *)
(***************************************************************************)
Sscanf_d_s(s) ==
  LET sp == SpaceRun(s, 1)
      sg == IF sp + 1 <= Len(s) /\ Char(s, sp + 1) \in {"+", "-"} THEN 1 ELSE 0
      nd == DigitRun(s, sp + sg + 1)
      us == sp + sg + nd + 1 + SpaceRun(s, sp + sg + nd + 1)
      ul == TokenRun(s, us)
      neg == sg = 1 /\ Char(s, sp + 1) = "-"
      mag == ParseMag(SubSeq(s, sp + sg + 1, sp + sg + nd))
      fits == ~mag.ovf /\ (~IsNeg64(mag.v) \/ (neg /\ mag.v = MinInt64))
  IN  IF nd = 0 \/ ~fits \/ ul = 0
      THEN [ok |-> FALSE, value |-> Zero64, unit |-> ""]
      ELSE [ok |-> TRUE,
            value |-> IF neg THEN Neg64(mag.v) ELSE mag.v,
            unit |-> SubSeq(s, us, us + ul - 1)]

GoMemoryToPHPMemory(goMem) ==
  LET sc == Sscanf_d_s(goMem)
  IN  IF ~sc.ok THEN [err |-> "invalid memory format", val |-> ""]
      ELSE IF sc.unit = "Ki" THEN [err |-> "", val |-> Itoa64(Quo64(sc.value, 1024)) \o "M"]
      ELSE IF sc.unit = "Mi" THEN [err |-> "", val |-> Itoa64(sc.value) \o "M"]
      ELSE IF sc.unit = "Gi" THEN [err |-> "", val |-> Itoa64(MulAdd64(sc.value, 1024, 0)) \o "M"]
      ELSE [err |-> "unsupported unit", val |-> ""]

(***************************************************************************)
(* resource.MustParse for the quantities the model uses: decimal digits    *)
(* and a suffix.  A quantity is held normalised as ki*1024 + milli/1000    *)
(* with 0 <= milli < 1024000, so numeric equality is record equality.      *)
(* An unparsable string makes MustParse panic.                             *)
(***************************************************************************)
Invalid == [valid |-> FALSE, ki |-> 0, milli |-> 0]

Quantity(k, m) == [valid |-> TRUE, ki |-> k, milli |-> m]

ParseQuantity(s) ==
  LET nd == DigitRun(s, 1)
      n == Atoi(SubSeq(s, 1, nd))
      suf == SubSeq(s, nd + 1, Len(s))
  IN  IF nd = 0 THEN Invalid
      ELSE IF suf = "" THEN Quantity(n \div 1024, (n % 1024) * 1000)
      ELSE IF suf = "m" THEN Quantity(n \div 1024000, n % 1024000)
      ELSE IF suf = "Ki" THEN Quantity(n, 0)
      ELSE IF suf = "Mi" THEN Quantity(n * 1024, 0)
      ELSE IF suf = "Gi" THEN Quantity(n * 1048576, 0)
      ELSE IF suf = "M" THEN Quantity((n * 15625) \div 16, ((n * 15625) % 16) * 64000)
      ELSE Invalid

\* Quantity.Cmp
QuantityCmp(a, b) ==
  IF a.ki < b.ki THEN 0 - 1
  ELSE IF a.ki > b.ki THEN 1
  ELSE IF a.milli < b.milli THEN 0 - 1
  ELSE IF a.milli > b.milli THEN 1
  ELSE 0

(***************************************************************************)
(* helpers.go: the php.ini content of ReconcileConfigMap.                  *)
(***************************************************************************)
DefaultMaxUpload == "64M"

\* phpConfig := map[string]string{...}
DefaultPHPConfig(maxUploadLimit, memoryLimit) ==
  [k \in {"upload_max_filesize", "post_max_size", "memory_limit", "max_execution_time",
          "max_input_vars", "session.cookie_httponly", "session.cookie_secure",
          "session.use_only_cookies"} |->
     CASE k = "upload_max_filesize" -> maxUploadLimit
       [] k = "post_max_size" -> maxUploadLimit
       [] k = "memory_limit" -> memoryLimit
       [] k = "max_execution_time" -> "60"
       [] k = "max_input_vars" -> "3000"
       [] OTHER -> "1"]

\* The defaults with the override loop left out.
OverrideNothing(phpConfig, overrides) == phpConfig

\* for k, v := range wp.Spec.WordPress.PHPConfig { phpConfig[k] = v }
OverridePHPConfig(phpConfig, overrides) ==
  [k \in DOMAIN phpConfig \cup DOMAIN overrides |->
     IF k \in DOMAIN overrides THEN overrides[k] ELSE phpConfig[k]]

MergedPHPConfig(w, memoryLimit) ==
  OverridePHPConfig(
    DefaultPHPConfig(IF w.maxUploadLimit = "" THEN DefaultMaxUpload ELSE w.maxUploadLimit,
                     memoryLimit),
    w.phpConfig)

\* Go iterates a map in an unspecified order: the keys as some listing of the
\* key set, rotated by o \div 2 places and reversed when o is odd.
RECURSIVE SomeListing(_)
SomeListing(S) ==
  IF S = {} THEN <<>> ELSE LET k == CHOOSE k \in S : TRUE IN <<k>> \o SomeListing(S \ {k})

Rotate(q, r) ==
  [i \in 1..Len(q) |-> q[((i - 1 + r) % Len(q)) + 1]]

Reverse(q) == [i \in 1..Len(q) |-> q[Len(q) + 1 - i]]

RangeKeys(m, o) ==
  LET q == SomeListing(DOMAIN m)
      r == IF q = <<>> THEN q ELSE Rotate(q, o \div 2)
  IN  IF o % 2 = 1 THEN Reverse(r) ELSE r

\* sort.Strings(keys)
RECURSIVE InsertSorted(_, _)
InsertSorted(q, k) ==
  IF q = <<>> THEN <<k>>
  ELSE IF StrLess(k, Head(q)) THEN <<k>> \o q
  ELSE <<Head(q)>> \o InsertSorted(Tail(q), k)

RECURSIVE SortStrings(_)
SortStrings(q) ==
  IF q = <<>> THEN <<>> ELSE InsertSorted(SortStrings(Tail(q)), Head(q))

\* for _, k := range keys { phpIniContent += fmt.Sprintf("%s = %s\n", k, phpConfig[k]) }
RECURSIVE FormatLines(_, _)
FormatLines(keys, m) ==
  IF keys = <<>> THEN ""
  ELSE (Head(keys) \o " = " \o m[Head(keys)] \o "\n") \o FormatLines(Tail(keys), m)

\* The keys as ranged over, sort.Strings left out.
UnsortedKeys(m, o) == RangeKeys(m, o)

SortedKeys(m, o) == SortStrings(RangeKeys(m, o))

PhpIniOf(m, o) == FormatLines(SortedKeys(m, o), m)

\* phpIniContent of an Intent whose memory limit converts, under iteration order o.
PhpIniContent(w, o) ==
  PhpIniOf(MergedPHPConfig(w, GoMemoryToPHPMemory(w.memoryLimit).val), o)

(***************************************************************************)
(* The Intent (crmv1.WordPressSite) and the values its fields range over.  *)
(***************************************************************************)
StorageSizes == {"", "5Gi", "10Gi"}
DefaultStorageSize == "10Gi"
ReplicaCounts == {0, 1, 2}
Images == {"wordpress:6.4", "wordpress:6.5"}
MemoryLimits == {"256Mi", "1Gi", "512M", "10Xi"}
MaxUploadLimits == {"", "128M"}
NoOverrides == [k \in {} |-> ""]
PHPConfigs == {NoOverrides,
               [k \in {"memory_limit"} |-> "512M"],
               [k \in {"display_errors"} |-> "Off"]}
Envs == {<<>>, <<[name |-> "WP_DEBUG", value |-> "1"]>>}
StorageClassNames == {"", "fast"}

SiteName == "blog"

GetResourceName(wpName) == wpName

BaseIntent ==
  [storageSize |-> "5Gi", replicas |-> 1, image |-> "wordpress:6.4",
   memoryLimit |-> "256Mi", memoryRequest |-> "128Mi",
   cpuLimit |-> "500m", cpuRequest |-> "250m",
   maxUploadLimit |-> "", phpConfig |-> NoOverrides, env |-> <<>>]

\* The conversions of the Intent's strings, tabulated once over the values
\* the fields range over.
PHPMemoryTable == [m \in MemoryLimits |-> GoMemoryToPHPMemory(m)]

PHPMemory(m) == PHPMemoryTable[m]

QuantityTable ==
  [q \in StorageSizes \cup MemoryLimits \cup {DefaultStorageSize, "128Mi", "500m", "250m", "1"} |->
     ParseQuantity(q)]

MustParse(q) == QuantityTable[q]

PhpIniTable ==
  [m \in MemoryLimits, u \in MaxUploadLimits, c \in PHPConfigs, o \in 0..(MaxOrders - 1) |->
     PhpIniContent([memoryLimit |-> m, maxUploadLimit |-> u, phpConfig |-> c], o)]

PhpIni(w, o) == PhpIniTable[w.memoryLimit, w.maxUploadLimit, w.phpConfig, o]

\* The Intents one edit away from w.
Edits(w) ==
  ({[w EXCEPT !.storageSize = v] : v \in StorageSizes}
   \cup {[w EXCEPT !.replicas = v] : v \in ReplicaCounts}
   \cup {[w EXCEPT !.image = v] : v \in Images}
   \cup {[w EXCEPT !.memoryLimit = v] : v \in MemoryLimits}
   \cup {[w EXCEPT !.maxUploadLimit = v] : v \in MaxUploadLimits}
   \cup {[w EXCEPT !.phpConfig = v] : v \in PHPConfigs}
   \cup {[w EXCEPT !.env = v] : v \in Envs}) \ {w}

(***************************************************************************)
(* Reconciliation passes.  A pass runs the reconcilers of its plan in the  *)
(* order storage, configuration, workload and stops at the first failure;  *)
(* each store call (Get, Create, Update) is one step.                      *)
(***************************************************************************)
Passes == {1, 2}
Plans == {"all", "pvc", "cm", "dep"}
Owner == "wp"

\* pc, plan, content (phpIniContent) and changed (configChanged) are the pass's
\* position and locals; the other fields record what the pass saw and did.
OffPass ==
  [pc |-> "off", plan |-> "all", content |-> "", changed |-> FALSE,
   result |-> "none",   \* what the pass returned: ok, error or panic
   err |-> "",          \* the error returned, "" for nil
   ok |-> {},           \* the reconcilers that returned nil
   calls |-> 0,         \* Create and Update calls issued
   rerun |-> FALSE,     \* started right after a successful pass, nothing changed between
   solo |-> FALSE,      \* no other pass ran during this one
   faulted |-> FALSE,   \* a store call of the pass failed with an injected error
   lost |-> FALSE,      \* a Create found the object, or an Update was stale
   resize |-> FALSE,    \* the claim was read with a size other than the desired one
   compared |-> FALSE,  \* the comparison read of the ConfigMap happened
   stored |-> Absent,   \* ... and found this ConfigMap
   depSeen |-> FALSE,   \* ... while the Deployment existed
   stamped |-> FALSE,   \* the pass wrote the restart annotation
   owedIn |-> FALSE,    \* an earlier pass stored changed content and failed to stamp
   owes |-> FALSE]      \* this pass stored changed content and failed to stamp

IdlePass == [OffPass EXCEPT !.pc = "idle"]

AllIdle == \A p \in Passes : pass[p].pc \in {"idle", "off"}

Done(p) == pass[p].pc = "done"

FirstPc(plan) ==
  CASE plan = "cm" -> "cm_compute" [] plan = "dep" -> "dep_get" [] OTHER -> "pvc_get"

\* The pass returns res to its caller.
Finish(r, res) == [r EXCEPT !.pc = "done", !.result = res]

\* The errors of the store: of an injected failure, of a Create of an existing
\* object, of an Update against a stale read.
StoreError == "internal error"
AlreadyExists == "already exists"
Conflict == "conflict"

\* The store's error returned as it is.
ReturnedUnwrapped(pc, e) == e

\* The error a reconciler returns when its store call at pc failed with e:
\* ReconcileDeployment wraps it with fmt.Errorf, the others return it.
Returned(pc, e) ==
  IF pc = "dep_get" THEN "failed to get deployment " \o GetResourceName(SiteName) \o ": " \o e
  ELSE IF pc = "dep_create"
  THEN "failed to create deployment " \o GetResourceName(SiteName) \o ": " \o e
  ELSE IF pc = "dep_update"
  THEN "failed to update deployment " \o GetResourceName(SiteName) \o ": " \o e
  ELSE e

\* The reconciler returns the error e.
Fail(r, e) == [Finish(r, "error") EXCEPT !.err = e]

\* A reconciler returned nil: the next reconciler of the plan, or the end.
StageDone(r, stage) ==
  LET q == [r EXCEPT !.ok = @ \cup {stage}]
  IN  IF r.plan = "all" /\ stage = "pvc" THEN [q EXCEPT !.pc = "cm_compute"]
      ELSE IF r.plan = "all" /\ stage = "cm" THEN [q EXCEPT !.pc = "dep_get"]
      ELSE Finish(q, "ok")

\* A Create of an existing object (AlreadyExists) or an Update against a stale
\* read (Conflict): the reconciler returns the error.
Lost(r) ==
  Fail([r EXCEPT !.lost = TRUE],
       Returned(r.pc, IF r.pc \in {"pvc_create", "cou_create", "dep_create"}
                      THEN AlreadyExists ELSE Conflict))

Called(r) == [r EXCEPT !.calls = @ + 1]

Forget(f, p) == [o \in DOMAIN f |-> f[o] \ {p}]

\* Pass p moves to r; f is the new freshness of the reads.
Step(p, r, f) ==
  /\ pass' = [pass EXCEPT ![p] = r]
  /\ fresh' = IF r.pc = "done" THEN Forget(f, p) ELSE f
  /\ hist' = IF r.pc = "done"
             THEN [hist EXCEPT !.quiet = (r.result = "ok" /\ r.plan = "all" /\ ~r.faulted),
                               !.owed = r.owes \/ (hist.owed /\ ~r.stamped),
                               !.raced = hist.raced \/ r.lost]
             ELSE hist

Read(o, p) == [fresh EXCEPT ![o] = @ \cup {p}]
Wrote(o, p) == [fresh EXCEPT ![o] = {p}]

\* Two passes are interleaved only in the behaviours of SpecConc.
Concurrent == \A p \in Passes : pass[p].pc # "off"

\* The environment's budget of events.
CanEvent == events < (IF Concurrent THEN MaxConcEvents ELSE MaxEvents)

CanFault == CanEvent

Start(p) ==
  /\ pass[p].pc = "idle"
  /\ \E plan \in (IF Concurrent THEN {"all"} ELSE Plans) :
       pass' = [q \in Passes |->
                  IF q = p
                  THEN [IdlePass EXCEPT !.pc = FirstPc(plan), !.plan = plan,
                                        !.result = "running",
                                        !.rerun = (hist.quiet /\ plan = "all"),
                                        !.solo = \A o \in Passes \ {p} :
                                                   pass[o].pc \in {"idle", "off"},
                                        !.owedIn = hist.owed]
                  ELSE [pass[q] EXCEPT !.solo = FALSE]]
  /\ hist' = [hist EXCEPT !.quiet = FALSE,
                          !.base = IF Concurrent /\ hist.base = NoBase
                                   THEN [pvc |-> pvc, cm |-> cm, dep |-> dep] ELSE @]
  /\ UNCHANGED <<wp, pvc, cm, dep, fresh, now, events, osenv, ini, call>>

\* The caller has the result; the pass's locals are gone.
Return(p) ==
  /\ pass[p].pc = "done"
  /\ pass' = [pass EXCEPT ![p] = IdlePass]
  /\ UNCHANGED <<wp, pvc, cm, dep, fresh, now, events, osenv, hist, ini, call>>

(***************************************************************************)
(* pvc.go: ReconcilePVC                                                    *)
(***************************************************************************)
NewPVC(w) ==
  [size |-> MustParse(IF w.storageSize # "" THEN w.storageSize ELSE DefaultStorageSize),
   accessMode |-> "ReadWriteMany",
   storageClass |-> osenv.STORAGE_CLASS_NAME,
   owner |-> Owner]

\* A resize by delete and re-create.
RecreatedPVC(read, w) == Absent

\* The object handed to r.Update on the update path: quantity is a copy of the
\* request, so assigning to it leaves pvc as it was read.
UpdatedPVC(read, w) == read

\* quantity != resource.MustParse(...) compares the Quantity structs; for the
\* sizes of StorageSizes that is the numeric comparison.
PVCGet(p) ==
  /\ pass[p].pc = "pvc_get"
  /\ IF pvc = Absent
     THEN Step(p, [pass[p] EXCEPT !.pc = "pvc_create"], fresh)
     ELSE IF ~MustParse(wp.storageSize).valid
     THEN Step(p, Finish(pass[p], "panic"), fresh)
     ELSE IF pvc.size # MustParse(wp.storageSize)
     THEN Step(p, [pass[p] EXCEPT !.pc = "pvc_update", !.resize = TRUE], Read("pvc", p))
     ELSE Step(p, StageDone(pass[p], "pvc"), fresh)
  /\ UNCHANGED <<wp, pvc, cm, dep, now, events, osenv, ini, call>>

PVCCreate(p) ==
  /\ pass[p].pc = "pvc_create"
  /\ IF pvc = Absent
     THEN /\ pvc' = NewPVC(wp)
          /\ Step(p, StageDone(Called(pass[p]), "pvc"), Wrote("pvc", p))
     ELSE /\ pvc' = pvc
          /\ Step(p, Lost(Called(pass[p])), fresh)
  /\ UNCHANGED <<wp, cm, dep, now, events, osenv, ini, call>>

PVCUpdate(p) ==
  /\ pass[p].pc = "pvc_update"
  /\ IF p \in fresh.pvc
     THEN /\ pvc' = UpdatedPVC(pvc, wp)
          /\ Step(p, StageDone(Called(pass[p]), "pvc"),
                  IF pvc' = pvc THEN fresh ELSE Wrote("pvc", p))
     ELSE /\ pvc' = pvc
          /\ Step(p, Lost(Called(pass[p])), fresh)
  /\ UNCHANGED <<wp, cm, dep, now, events, osenv, ini, call>>

(***************************************************************************)
(* helpers.go: ReconcileConfigMap.  ctrl.CreateOrUpdate reads the object,  *)
(* applies the mutate function, and creates it when it was not found,      *)
(* updates it when the mutated object differs from the one read, and       *)
(* otherwise writes nothing.                                               *)
(***************************************************************************)
CMCompute(p) ==
  /\ pass[p].pc = "cm_compute"
  /\ IF PHPMemory(wp.memoryLimit).err # ""
     THEN Step(p, Fail(pass[p], PHPMemory(wp.memoryLimit).err), fresh)
     ELSE \E o \in 0..(MaxOrders - 1) :
            Step(p, [pass[p] EXCEPT !.pc = "cm_get", !.content = PhpIni(wp, o)], fresh)
  /\ UNCHANGED <<wp, pvc, cm, dep, now, events, osenv, ini, call>>

\* A comparison that never reports a change.
ConfigNeverChanged(existing, phpIniContent) == FALSE

\* existing, ok := existingConfigMap.Data["php.ini"]; ok && existing != phpIniContent
ConfigChanged(existing, phpIniContent) ==
  existing # Absent /\ existing.php # NoKey /\ existing.php # phpIniContent

CMGet(p) ==
  /\ pass[p].pc = "cm_get"
  /\ Step(p, [pass[p] EXCEPT !.pc = "cou_get",
                             !.changed = ConfigChanged(cm, pass[p].content),
                             !.compared = TRUE,
                             !.stored = cm,
                             !.depSeen = (dep # Absent)],
          fresh)
  /\ UNCHANGED <<wp, pvc, cm, dep, now, events, osenv, ini, call>>

\* A mutate function that sets the controller reference on a new object only.
MutateCMOwnerOnCreate(obj, phpIniContent) ==
  [php |-> phpIniContent, extras |-> FALSE,
   owner |-> IF obj = Absent THEN Owner ELSE obj.owner]

\* The mutate function on the object CreateOrUpdate read (or on the new one).
MutateCM(obj, phpIniContent) ==
  [php |-> phpIniContent, extras |-> FALSE, owner |-> Owner]

\* After CreateOrUpdate returned nil.
AfterUpsert(r) ==
  IF r.changed THEN [r EXCEPT !.pc = "restart_get"] ELSE StageDone(r, "cm")

COUGet(p) ==
  /\ pass[p].pc = "cou_get"
  /\ IF cm = Absent
     THEN Step(p, [pass[p] EXCEPT !.pc = "cou_create"], fresh)
     ELSE IF MutateCM(cm, pass[p].content) = cm
     THEN Step(p, AfterUpsert(pass[p]), fresh)
     ELSE Step(p, [pass[p] EXCEPT !.pc = "cou_update"], Read("cm", p))
  /\ UNCHANGED <<wp, pvc, cm, dep, now, events, osenv, ini, call>>

COUCreate(p) ==
  /\ pass[p].pc = "cou_create"
  /\ IF cm = Absent
     THEN /\ cm' = MutateCM(Absent, pass[p].content)
          /\ Step(p, AfterUpsert(Called(pass[p])), Wrote("cm", p))
     ELSE /\ cm' = cm
          /\ Step(p, Lost(Called(pass[p])), fresh)
  /\ UNCHANGED <<wp, pvc, dep, now, events, osenv, ini, call>>

COUUpdate(p) ==
  /\ pass[p].pc = "cou_update"
  /\ IF p \in fresh.cm
     THEN /\ cm' = MutateCM(cm, pass[p].content)
          /\ Step(p, AfterUpsert(Called(pass[p])), Wrote("cm", p))
     ELSE /\ cm' = cm
          /\ Step(p, Lost(Called(pass[p])), fresh)
  /\ UNCHANGED <<wp, pvc, dep, now, events, osenv, ini, call>>

\* r.Get of the Deployment for the restart: only err == nil leads on.
RestartGet(p) ==
  /\ pass[p].pc = "restart_get"
  /\ IF dep = Absent
     THEN Step(p, StageDone(pass[p], "cm"), fresh)
     ELSE Step(p, [pass[p] EXCEPT !.pc = "restart_update"], Read("dep", p))
  /\ UNCHANGED <<wp, pvc, cm, dep, now, events, osenv, ini, call>>

\* deployment.Spec.Template.Annotations["kubepress.io/restarted-at"] = now
Restarted(d, t) == [d EXCEPT !.restartedAt = Itoa(t)]

RestartUpdate(p) ==
  /\ pass[p].pc = "restart_update"
  /\ IF p \in fresh.dep
     THEN /\ dep' = Restarted(dep, now)
          /\ Step(p, StageDone([Called(pass[p]) EXCEPT !.stamped = TRUE], "cm"),
                  IF dep' = dep THEN fresh ELSE Wrote("dep", p))
     ELSE /\ dep' = dep
          /\ Step(p, Lost([Called(pass[p]) EXCEPT !.owes = TRUE]), fresh)
  /\ UNCHANGED <<wp, pvc, cm, now, events, osenv, ini, call>>

(***************************************************************************)
(* deployment.go: ReconcileDeployment                                      *)
(***************************************************************************)
EnvVar(n, v) == [name |-> n, value |-> v]

\* Variables whose value comes from the secret carry no literal value.
MainEnv ==
  <<EnvVar("WORDPRESS_DB_HOST", ""), EnvVar("WORDPRESS_DB_NAME", ""),
    EnvVar("WORDPRESS_DB_USER", ""), EnvVar("WORDPRESS_DB_PASSWORD", ""),
    EnvVar("WORDPRESS_TABLE_PREFIX", "wp_"), EnvVar("APACHE_RUN_USER", "www-data"),
    EnvVar("APACHE_RUN_GROUP", "www-data")>>

InitEnv(memoryLimit) ==
  <<EnvVar("WORDPRESS_DB_HOST", ""), EnvVar("WORDPRESS_DB_NAME", ""),
    EnvVar("WORDPRESS_DB_USER", ""), EnvVar("WORDPRESS_DB_PASSWORD", ""),
    EnvVar("WORDPRESS_URL", "http://" \o SiteName), EnvVar("WORDPRESS_TITLE", ""),
    EnvVar("WORDPRESS_ADMIN_USER", ""), EnvVar("WORDPRESS_ADMIN_PASSWORD", ""),
    EnvVar("WORDPRESS_ADMIN_EMAIL", ""), EnvVar("WORDPRESS_MEMORY_LIMIT", memoryLimit)>>

\* corev1.ResourceRequirements built from the Intent with resource.MustParse.
Resources(w) ==
  [requests |-> [n \in {"cpu", "memory"} |->
                   MustParse(IF n = "cpu" THEN w.cpuRequest ELSE w.memoryRequest)],
   limits |-> [n \in {"cpu", "memory"} |->
                 MustParse(IF n = "cpu" THEN w.cpuLimit ELSE w.memoryLimit)]]

ResourcesPanic(w) ==
  \E n \in {"cpu", "memory"} :
    ~Resources(w).requests[n].valid \/ ~Resources(w).limits[n].valid

\* The loops of resourcesEqual without the comparison of the quantities.
ListEqualNames(a, b) == \A n \in DOMAIN a : n \in DOMAIN b

ListEqual(a, b) ==
  \A n \in DOMAIN a : n \in DOMAIN b /\ QuantityCmp(b[n], a[n]) = 0

resourcesEqual(requirements, actual) ==
  IF Cardinality(DOMAIN requirements.limits) # Cardinality(DOMAIN actual.limits)
     \/ Cardinality(DOMAIN requirements.requests) # Cardinality(DOMAIN actual.requests)
  THEN FALSE
  ELSE ListEqual(requirements.limits, actual.limits)
       /\ ListEqual(requirements.requests, actual.requests)

\* The Intent's count taken as it is.
RequestedReplicas(w) == w.replicas

NewReplicas(w) == IF w.replicas > 0 THEN w.replicas ELSE 1

NewDeployment(w) ==
  [image |-> w.image, initImage |-> w.image, replicas |-> NewReplicas(w),
   resources |-> Resources(w), env |-> MainEnv,
   initEnv |-> InitEnv(PHPMemory(w.memoryLimit).val),
   restartedAt |-> "", owner |-> Owner]

EnvNames(env) == {env[i].name : i \in DOMAIN env}

\* updateEnvVars: the names present are collected once, before the appends.
RECURSIVE AppendAbsent(_, _, _)
AppendAbsent(env, envVars, existing) ==
  IF envVars = <<>> THEN env
  ELSE AppendAbsent(IF Head(envVars).name \in existing THEN env
                    ELSE Append(env, EnvVar(Head(envVars).name, Head(envVars).value)),
                    Tail(envVars), existing)

\* The Intent's variables put in place of the container's.
ReplaceEnvVars(env, envVars) == envVars

updateEnvVars(env, envVars) == AppendAbsent(env, envVars, EnvNames(env))

\* The init container's WORDPRESS_MEMORY_LIMIT: the first variable of that name
\* is set when it differs; a nil list is replaced by the single variable.
MemIndex(env) ==
  IF \E i \in DOMAIN env : env[i].name = "WORDPRESS_MEMORY_LIMIT"
  THEN CHOOSE i \in DOMAIN env :
         /\ env[i].name = "WORDPRESS_MEMORY_LIMIT"
         /\ \A j \in 1..(i - 1) : env[j].name # "WORDPRESS_MEMORY_LIMIT"
  ELSE 0

SyncInitEnv(env, memoryLimit) ==
  IF env = <<>> THEN <<EnvVar("WORDPRESS_MEMORY_LIMIT", memoryLimit)>>
  ELSE IF MemIndex(env) = 0 THEN env
  ELSE [env EXCEPT ![MemIndex(env)].value = memoryLimit]

PatchedReplicas(d, w) == w.replicas

\* The deployment as the update branch leaves it before r.Update.
PatchedDeployment(d, w) ==
  [d EXCEPT !.image = w.image,
            !.replicas = PatchedReplicas(d, w),
            !.env = IF Len(w.env) > 0 THEN updateEnvVars(d.env, w.env) ELSE d.env,
            !.resources = IF resourcesEqual(d.resources, Resources(w))
                          THEN d.resources ELSE Resources(w),
            !.initEnv = SyncInitEnv(d.initEnv, PHPMemory(w.memoryLimit).val)]

\* updateNeeded, axis by axis.
UpdateNeeded(d, w) ==
  \/ d.image # w.image
  \/ d.replicas # w.replicas
  \/ Len(w.env) > 0 /\ updateEnvVars(d.env, w.env) # d.env
  \/ ~resourcesEqual(d.resources, Resources(w))
  \/ d.initEnv = <<>>
  \/ /\ MemIndex(d.initEnv) # 0
     /\ d.initEnv[MemIndex(d.initEnv)].value # PHPMemory(w.memoryLimit).val

DepGet(p) ==
  /\ pass[p].pc = "dep_get"
  /\ IF dep = Absent
     THEN IF PHPMemory(wp.memoryLimit).err # ""
          THEN Step(p, Fail(pass[p], PHPMemory(wp.memoryLimit).err), fresh)
          ELSE IF ResourcesPanic(wp)
          THEN Step(p, Finish(pass[p], "panic"), fresh)
          ELSE Step(p, [pass[p] EXCEPT !.pc = "dep_create"], fresh)
     ELSE IF ResourcesPanic(wp)
     THEN Step(p, Finish(pass[p], "panic"), fresh)
     ELSE IF PHPMemory(wp.memoryLimit).err # ""
     THEN Step(p, Fail(pass[p], PHPMemory(wp.memoryLimit).err), fresh)
     ELSE IF UpdateNeeded(dep, wp)
     THEN Step(p, [pass[p] EXCEPT !.pc = "dep_update"], Read("dep", p))
     ELSE Step(p, StageDone(pass[p], "dep"), fresh)
  /\ UNCHANGED <<wp, pvc, cm, dep, now, events, osenv, ini, call>>

DepCreate(p) ==
  /\ pass[p].pc = "dep_create"
  /\ IF dep = Absent
     THEN /\ dep' = NewDeployment(wp)
          /\ Step(p, StageDone(Called(pass[p]), "dep"), Wrote("dep", p))
     ELSE /\ dep' = dep
          /\ Step(p, Lost(Called(pass[p])), fresh)
  /\ UNCHANGED <<wp, pvc, cm, now, events, osenv, ini, call>>

DepUpdate(p) ==
  /\ pass[p].pc = "dep_update"
  /\ IF p \in fresh.dep
     THEN /\ dep' = PatchedDeployment(dep, wp)
          /\ Step(p, StageDone(Called(pass[p]), "dep"), Wrote("dep", p))
     ELSE /\ dep' = dep
          /\ Step(p, Lost(Called(pass[p])), fresh)
  /\ UNCHANGED <<wp, pvc, cm, now, events, osenv, ini, call>>

(***************************************************************************)
(* The store failing a call (any error other than not-found), bounded by   *)
(* the event budget.                                                       *)
(***************************************************************************)
GetCalls == {"pvc_get", "cm_get", "cou_get", "dep_get"}
WriteCalls == {"pvc_create", "pvc_update", "cou_create", "cou_update", "dep_create",
               "dep_update"}

GetFault(p) ==
  /\ pass[p].pc \in GetCalls
  /\ CanFault
  /\ events' = events + 1
  /\ Step(p, Fail([pass[p] EXCEPT !.faulted = TRUE], Returned(pass[p].pc, StoreError)), fresh)
  /\ UNCHANGED <<wp, pvc, cm, dep, now, osenv, ini, call>>

WriteFault(p) ==
  /\ pass[p].pc \in WriteCalls
  /\ CanFault
  /\ events' = events + 1
  /\ Step(p, Fail([Called(pass[p]) EXCEPT !.faulted = TRUE],
                   Returned(pass[p].pc, StoreError)), fresh)
  /\ UNCHANGED <<wp, pvc, cm, dep, now, osenv, ini, call>>

\* helpers.go 204-215: an error of the restart's Get is dropped, the function
\* returns nil.
RestartGetFault(p) ==
  /\ pass[p].pc = "restart_get"
  /\ CanFault
  /\ events' = events + 1
  /\ Step(p, StageDone([pass[p] EXCEPT !.faulted = TRUE], "cm"), fresh)
  /\ UNCHANGED <<wp, pvc, cm, dep, now, osenv, ini, call>>

RestartUpdateFault(p) ==
  /\ pass[p].pc = "restart_update"
  /\ CanFault
  /\ events' = events + 1
  /\ Step(p, Fail([Called(pass[p]) EXCEPT !.faulted = TRUE, !.owes = TRUE], StoreError), fresh)
  /\ UNCHANGED <<wp, pvc, cm, dep, now, osenv, ini, call>>

(***************************************************************************)
(* The environment between passes: the user edits the Intent, another      *)
(* writer changes a stored object, the clock advances.                     *)
(***************************************************************************)
EditIntent ==
  /\ AllIdle
  /\ CanEvent
  /\ events' = events + 1
  /\ wp' \in Edits(wp)
  /\ hist' = NoHistory
  /\ UNCHANGED <<pvc, cm, dep, fresh, pass, now, osenv, ini, call>>

DriftedContent == "drifted = 1\n"

DriftCM ==
  /\ AllIdle
  /\ CanEvent
  /\ cm # Absent
  /\ events' = events + 1
  /\ cm' \in {[cm EXCEPT !.php = DriftedContent],
              [cm EXCEPT !.php = NoKey, !.extras = TRUE],
              [cm EXCEPT !.owner = ""]} \ {cm}
  /\ fresh' = [fresh EXCEPT !.cm = {}]
  /\ hist' = NoHistory
  /\ UNCHANGED <<wp, pvc, dep, pass, now, osenv, ini, call>>

DriftDep ==
  /\ AllIdle
  /\ CanEvent
  /\ dep # Absent
  /\ events' = events + 1
  /\ \E r \in ReplicaCounts \ {dep.replicas} : dep' = [dep EXCEPT !.replicas = r]
  /\ fresh' = [fresh EXCEPT !.dep = {}]
  /\ hist' = NoHistory
  /\ UNCHANGED <<wp, pvc, cm, pass, now, osenv, ini, call>>

Tick ==
  /\ AllIdle
  /\ CanEvent
  /\ events' = events + 1
  /\ now' = now + 1
  /\ UNCHANGED <<wp, pvc, cm, dep, fresh, pass, osenv, hist, ini, call>>

(***************************************************************************)
(* Specifications.                                                         *)
(***************************************************************************)
NoIni == [w |-> BaseIntent, outs |-> <<>>, orders |-> <<>>]

NoCall == [done |-> FALSE]

InitStore ==
  /\ wp = BaseIntent
  /\ osenv \in [STORAGE_CLASS_NAME : StorageClassNames]
  /\ pvc = Absent
  /\ cm = Absent
  /\ dep = Absent
  /\ fresh = [o \in {"pvc", "cm", "dep"} |-> {}]
  /\ now = 0
  /\ events = 0
  /\ hist = NoHistory
  /\ ini = NoIni
  /\ call = NoCall

\* One pass at a time.
Init ==
  /\ InitStore
  /\ pass = [p \in Passes |-> IF p = 1 THEN IdlePass ELSE OffPass]

\* Two passes for the same Intent, interleaved.
InitConc ==
  /\ InitStore
  /\ pass = [p \in Passes |-> IdlePass]

PassStep(p) ==
  \/ Start(p) \/ Return(p)
  \/ PVCGet(p) \/ PVCCreate(p) \/ PVCUpdate(p)
  \/ CMCompute(p) \/ CMGet(p) \/ COUGet(p) \/ COUCreate(p) \/ COUUpdate(p)
  \/ RestartGet(p) \/ RestartUpdate(p)
  \/ DepGet(p) \/ DepCreate(p) \/ DepUpdate(p)

Fault(p) ==
  \/ GetFault(p) \/ WriteFault(p) \/ RestartGetFault(p) \/ RestartUpdateFault(p)

Environment == EditIntent \/ DriftCM \/ DriftDep \/ Tick

Next ==
  \/ \E p \in Passes : PassStep(p)
  \/ \E p \in Passes : Fault(p)
  \/ Environment

Spec == Init /\ [][Next]_vars

\* Two passes interleaved; the store fails no call, so every error is a lost race.
NextConc ==
  \/ \E p \in Passes : PassStep(p)
  \/ Environment

SpecConc == InitConc /\ [][NextConc]_vars

\* The triggering mechanism re-invokes the whole pipeline for ever and every
\* started pass runs on: weak fairness of the passes' steps.
LivePass(p) == PassStep(p) /\ pass'[p].plan = "all"

NextLive ==
  \/ \E p \in Passes : LivePass(p)
  \/ \E p \in Passes : Fault(p)
  \/ Environment

SpecLive == Init /\ [][NextLive]_vars /\ WF_vars(\E p \in Passes : LivePass(p))

(***************************************************************************)
(* The php.ini computation on its own: an input is drawn, the content is   *)
(* computed MaxComputations times, each time under some iteration order.   *)
(***************************************************************************)
OverrideValues ==
  [k \in {"memory_limit", "display_errors", "opcache.enable"} |->
     CASE k = "memory_limit" -> "512M" [] k = "display_errors" -> "Off" [] OTHER -> "1"]

IniInputs ==
  {[memoryLimit |-> m, maxUploadLimit |-> u, phpConfig |-> [k \in K |-> OverrideValues[k]]] :
     m \in {"256Mi", "2Gi", "65536Ki"}, u \in MaxUploadLimits,
     K \in SUBSET DOMAIN OverrideValues}

InitIni ==
  /\ wp = BaseIntent
  /\ osenv = [STORAGE_CLASS_NAME |-> ""]
  /\ pvc = Absent
  /\ cm = Absent
  /\ dep = Absent
  /\ fresh = [o \in {"pvc", "cm", "dep"} |-> {}]
  /\ pass = [p \in Passes |-> OffPass]
  /\ now = 0
  /\ events = 0
  /\ hist = NoHistory
  /\ ini \in {[w |-> i, outs |-> <<>>, orders |-> <<>>] : i \in IniInputs}
  /\ call = NoCall

IniCompute ==
  /\ Len(ini.outs) < MaxComputations
  /\ \E o \in 0..(MaxOrders - 1) :
       ini' = [ini EXCEPT !.outs = Append(@, PhpIniContent(ini.w, o)),
                          !.orders = Append(@, o)]
  /\ UNCHANGED <<wp, pvc, cm, dep, fresh, pass, now, events, osenv, hist, call>>

SpecIni == InitIni /\ [][IniCompute]_vars

(***************************************************************************)
(* Properties.                                                             *)
(***************************************************************************)

\* C1: a pass that runs the storage, configuration and workload reconcilers
\* right after such a pass succeeded, with no change to the Intent or the store
\* between the two, and to which the store fails no call, issues no Create
\* and no Update.
C1_SecondRunWritesNothing ==
  \A p \in Passes : Done(p) /\ pass[p].rerun /\ ~pass[p].faulted => pass[p].calls = 0

\* The pass's comparison read found a ConfigMap with a php.ini entry.
HadContent(p) == pass[p].stored # Absent /\ pass[p].stored.php # NoKey

\* C2: given an existing Deployment, a pass none of whose store calls failed
\* whose comparison read found stored content other than the computed content
\* has written the restart annotation, with the current time; a pass whose
\* comparison read found the computed content has not written (nor tried to
\* write) the annotation.
C2_RestartCoupling ==
  \A p \in Passes :
    Done(p) /\ pass[p].compared /\ pass[p].depSeen /\ HadContent(p) =>
      /\ pass[p].stored.php # pass[p].content /\ ~pass[p].faulted =>
           /\ pass[p].stamped
           /\ dep.restartedAt = Itoa(now)
      /\ pass[p].stored.php = pass[p].content => ~pass[p].stamped /\ ~pass[p].owes

C2_Restarted ==
  \E p \in Passes :
    /\ Done(p) /\ pass[p].compared /\ pass[p].depSeen /\ HadContent(p)
    /\ pass[p].stored.php # pass[p].content
    /\ pass[p].stamped
    /\ dep.restartedAt = Itoa(now)

\* C3: when the storage reconciler read a claim whose requested size differs
\* from the Intent's storage size and returned nil, the stored claim requests
\* the Intent's size, and its access mode and storage class are as created.
C3_ResizeTakesEffect ==
  \A p \in Passes :
    Done(p) /\ pass[p].resize /\ "pvc" \in pass[p].ok =>
      /\ pvc.size = MustParse(wp.storageSize)
      /\ pvc.accessMode = NewPVC(wp).accessMode
      /\ pvc.storageClass = NewPVC(wp).storageClass

\* C4: a pass that stored changed content and failed to write the restart
\* annotation returns an error; and the next configuration pass for the
\* unchanged Intent whose store calls all succeed writes the annotation.
C4_RetryStamps ==
  \A p \in Passes :
    Done(p) =>
      /\ pass[p].owes => pass[p].result = "error"
      /\ pass[p].owedIn /\ "cm" \in pass[p].ok /\ ~pass[p].faulted /\ ~pass[p].lost =>
           pass[p].stamped

\* C5: for a fixed Intent all computations of the php.ini content give the
\* same string, whatever order the map was ranged over in.
C5_Deterministic ==
  \A i, j \in DOMAIN ini.outs : ini.outs[i] = ini.outs[j]

IniMerged == MergedPHPConfig(ini.w, GoMemoryToPHPMemory(ini.w.memoryLimit).val)

C5_TwoOrders ==
  /\ Len(ini.outs) = 2
  /\ DOMAIN ini.w.phpConfig # {}
  /\ RangeKeys(IniMerged, ini.orders[1]) # RangeKeys(IniMerged, ini.orders[2])

\* The text s cut at its line feeds.
RECURSIVE LineEnd(_, _)
LineEnd(s, i) == IF i > Len(s) \/ Char(s, i) = "\n" THEN i ELSE LineEnd(s, i + 1)

RECURSIVE LinesFrom(_, _)
LinesFrom(s, i) ==
  IF i > Len(s) THEN <<>>
  ELSE <<SubSeq(s, i, LineEnd(s, i) - 1)>> \o LinesFrom(s, LineEnd(s, i) + 1)

Lines(s) == LinesFrom(s, 1)

\* Position of the first " = " of line l, 0 when there is none.
RECURSIVE SepFrom(_, _)
SepFrom(l, i) ==
  IF i + 2 > Len(l) THEN 0
  ELSE IF SubSeq(l, i, i + 2) = " = " THEN i
  ELSE SepFrom(l, i + 1)

LineKey(l) == SubSeq(l, 1, SepFrom(l, 1) - 1)

LineValue(l) == SubSeq(l, SepFrom(l, 1) + 3, Len(l))

DefaultKeys ==
  {"upload_max_filesize", "post_max_size", "memory_limit", "max_execution_time",
   "max_input_vars", "session.cookie_httponly", "session.cookie_secure",
   "session.use_only_cookies"}

\* The value the content must give key k: the Intent's override when there is
\* one, the default otherwise.
ExpectedValue(w, k) ==
  IF k \in DOMAIN w.phpConfig THEN w.phpConfig[k]
  ELSE DefaultPHPConfig(IF w.maxUploadLimit = "" THEN DefaultMaxUpload ELSE w.maxUploadLimit,
                        GoMemoryToPHPMemory(w.memoryLimit).val)[k]

\* C6: the content is one "key = value" line, ended by a line feed, per key of
\* the 8 defaults and of the overrides, each with the override's value when
\* there is one and the default otherwise; keys strictly ascending (so none
\* repeated); no blank line and no comment line.
C6_OneLinePerKey ==
  \A n \in DOMAIN ini.outs :
    LET out == ini.outs[n]
        L == Lines(out)
        K == DefaultKeys \cup DOMAIN ini.w.phpConfig
    IN  /\ Cardinality(DefaultKeys) = 8
        /\ Char(out, Len(out)) = "\n"
        /\ Len(L) = Cardinality(K)
        /\ \A i \in DOMAIN L :
             /\ SepFrom(L[i], 1) > 1
             /\ Char(L[i], 1) \notin {";", "#"}
             /\ LineKey(L[i]) \in K
             /\ LineValue(L[i]) = ExpectedValue(ini.w, LineKey(L[i]))
        /\ \A i \in 1..(Len(L) - 1) : StrLess(LineKey(L[i]), LineKey(L[i + 1]))

C6_OverriddenAndAdded ==
  /\ Len(ini.outs) >= 1
  /\ "memory_limit" \in DOMAIN ini.w.phpConfig
  /\ "display_errors" \in DOMAIN ini.w.phpConfig
  /\ Len(Lines(ini.outs[1])) = 9

\* C7: after a pass whose configuration reconciler returned nil, the stored
\* ConfigMap holds the computed content and the controller reference to the
\* Intent, whether the ConfigMap was absent, held that content, or held other
\* content or another owner before.
C7_StoredIsComputed ==
  \A p \in Passes :
    Done(p) /\ "cm" \in pass[p].ok =>
      /\ cm # Absent
      /\ cm.php = pass[p].content
      /\ cm.php = PhpIni(wp, 0)
      /\ cm.owner = Owner

C7_HealedDrift ==
  \E p \in Passes :
    /\ Done(p) /\ "cm" \in pass[p].ok
    /\ pass[p].stored # Absent
    /\ pass[p].stored.owner # Owner \/ pass[p].stored.php = DriftedContent
    /\ cm = MutateCM(pass[p].stored, pass[p].content)

\* The Intent can be converged: its memory limit converts and its quantities parse.
ValidIntent(w) == PHPMemory(w.memoryLimit).err = "" /\ ~ResourcesPanic(w)

DesiredSize(w) == MustParse(IF w.storageSize # "" THEN w.storageSize ELSE DefaultStorageSize)

\* Every Managed Resource exists with its reconciled fields as desired.
Steady ==
  /\ pvc # Absent /\ pvc.size = DesiredSize(wp)
  /\ cm # Absent /\ cm.php = PhpIni(wp, 0) /\ cm.owner = Owner
  /\ dep # Absent /\ ~UpdateNeeded(dep, wp)

\* C8: with passes re-invoked for ever, once the store stops failing calls and
\* nothing else changes the Intent or the store, the Managed Resources of an
\* Intent that can be converged reach Steady and stay there.
C8_EventuallySteady == <>[](ValidIntent(wp) => Steady)

\* What one sequential pass makes of the store b.
OnePass(b, w) ==
  [pvc |-> IF b.pvc = Absent THEN NewPVC(w) ELSE UpdatedPVC(b.pvc, w),
   cm |-> MutateCM(b.cm, PhpIni(w, 0)),
   dep |-> IF b.dep = Absent THEN NewDeployment(w)
           ELSE IF UpdateNeeded(b.dep, w) THEN PatchedDeployment(b.dep, w)
           ELSE b.dep]

Unstamped(d) == [d EXCEPT !.restartedAt = ""]

\* C9: of two interleaved passes, one that loses a race (its Create found the
\* object, its Update was stale) returns an error; and a pass run alone from
\* scratch after a race was lost, once it succeeds, leaves the store as one
\* sequential pass from the store the interleaved passes began with would have,
\* the restart annotation apart.  (That no object is created twice and no
\* Update succeeds on a stale read is the store's Create and Update.)
C9_Reentrant ==
  \A p \in Passes :
    Done(p) =>
      /\ pass[p].lost => pass[p].result = "error"
      /\ pass[p].solo /\ pass[p].result = "ok" /\ hist.raced /\ hist.base # NoBase =>
           /\ pvc = OnePass(hist.base, wp).pvc
           /\ cm = OnePass(hist.base, wp).cm
           /\ Unstamped(dep) = Unstamped(OnePass(hist.base, wp).dep)

\* C10: no step deletes a stored claim, ConfigMap or Deployment.
C10_NeverDeletes ==
  [][/\ pvc # Absent => pvc' # Absent
     /\ cm # Absent => cm' # Absent
     /\ dep # Absent => dep' # Absent]_vars

C10_AllKeptAfterFailure ==
  \E p \in Passes :
    /\ Done(p) /\ pass[p].result = "error" /\ pass[p].resize
    /\ pvc # Absent /\ cm # Absent /\ dep # Absent

(***************************************************************************)
(* Derived names (GetResourceName, GetPVCName, GetConfigMapName,           *)
(* GetTLSSecretName) as pure functions of the Intent's name.               *)
(***************************************************************************)
MaxNameLen == 200
NameCeiling == 63
SuffixLen == 5

GetPVCName(wpName) == wpName

\* The name with the suffix appended to the whole identity.
GetConfigMapNameUncut(wpName) == GetResourceName(wpName) \o "--php"

GetConfigMapName(wpName) ==
  GetResourceName(IF Len(wpName) > NameCeiling - SuffixLen
                  THEN SubSeq(wpName, 1, NameCeiling - SuffixLen) ELSE wpName) \o "--php"

GetTLSSecretName(wpName) ==
  GetResourceName(IF Len(wpName) > NameCeiling - SuffixLen
                  THEN SubSeq(wpName, 1, NameCeiling - SuffixLen) ELSE wpName) \o "--tls"

\* n copies of the one-character string c.
RECURSIVE Pad(_, _)
Pad(c, n) ==
  IF n = 0 THEN ""
  ELSE IF n % 2 = 1 THEN Pad(c, n - 1) \o c
  ELSE LET h == Pad(c, n \div 2) IN h \o h

\* Names of two Intents of one namespace: short ones, and long ones that agree
\* on their first 58 characters.
PairedNames ==
  {"blog", "shop", Pad("x", NameCeiling - SuffixLen) \o "a",
   Pad("x", NameCeiling - SuffixLen) \o "b", Pad("x", NameCeiling - SuffixLen) \o "ab"}

\* Identities of every length up to MaxNameLen.
Identities == {Pad(c, n) : c \in {"a", "z"}, n \in 0..MaxNameLen}

\* The names of the Managed Resources of the Intent named wpName; the
\* Deployment is named GetResourceName (deployment.go, helpers.go 202).
ManagedNames(wpName) ==
  [pvc |-> GetPVCName(wpName), cm |-> GetConfigMapName(wpName), dep |-> GetResourceName(wpName)]

InitNames ==
  /\ wp = BaseIntent
  /\ osenv = [STORAGE_CLASS_NAME |-> ""]
  /\ pvc = Absent
  /\ cm = Absent
  /\ dep = Absent
  /\ fresh = [o \in {"pvc", "cm", "dep"} |-> {}]
  /\ pass = [p \in Passes |-> OffPass]
  /\ now = 0
  /\ events = 0
  /\ hist = NoHistory
  /\ ini = NoIni
  /\ call \in {[op |-> "pair", a |-> x, b |-> y, done |-> FALSE, out |-> <<>>] :
                 x \in PairedNames, y \in PairedNames}
              \cup {[op |-> "one", a |-> x, done |-> FALSE, out |-> <<>>] : x \in Identities}

Idle == UNCHANGED <<wp, pvc, cm, dep, fresh, pass, now, events, osenv, hist, ini>>

\* Two Intents' passes derive the names of their Managed Resources.
NamePair ==
  /\ ~call.done /\ call.op = "pair"
  /\ call' = [call EXCEPT !.done = TRUE,
                          !.out = <<ManagedNames(call.a), ManagedNames(call.b)>>]
  /\ Idle

NameOne ==
  /\ ~call.done /\ call.op = "one"
  /\ call' = [call EXCEPT !.done = TRUE,
                          !.out = [cm |-> GetConfigMapName(call.a),
                                   tls |-> GetTLSSecretName(call.a)]]
  /\ Idle

SpecNames == InitNames /\ [][NamePair \/ NameOne]_vars

\* C11: two Intents of one namespace with different names, names longer than
\* 58 characters that share their first 58 included, get different names for
\* their storage claims, for their ConfigMaps and for their Deployments.
C11_NamesDistinct ==
  call.done /\ call.op = "pair" /\ call.a # call.b =>
    /\ call.out[1].pvc # call.out[2].pvc
    /\ call.out[1].cm # call.out[2].cm
    /\ call.out[1].dep # call.out[2].dep

\* s ends with the string t.
EndsWith(s, t) == Len(s) >= Len(t) /\ SubSeq(s, Len(s) - Len(t) + 1, Len(s)) = t

\* C12: for every identity of 0 to MaxNameLen characters the ConfigMap name has
\* at most 63 characters and ends in "--php", the TLS secret name has at most 63
\* characters and ends in "--tls", and both are the values the functions give
\* that identity on any other call.
C12_NamesFit ==
  call.done /\ call.op = "one" =>
    /\ Len(call.out.cm) <= 63 /\ EndsWith(call.out.cm, "--php")
    /\ Len(call.out.tls) <= 63 /\ EndsWith(call.out.tls, "--tls")
    /\ call.out.cm = GetConfigMapName(call.a)
    /\ call.out.tls = GetTLSSecretName(call.a)

C12_LongIdentity ==
  /\ call.done /\ call.op = "one"
  /\ Len(call.a) = MaxNameLen
  /\ Len(call.out.cm) = 63 /\ Len(call.out.tls) = 63

(***************************************************************************)
(* GoMemoryToPHPMemory on its own, on inputs put together from a sign, a   *)
(* run of digits and a suffix.                                             *)
(***************************************************************************)
MemSigns == {"", "-"}

MemDigits ==
  {"", "0", "1", "2", "10", "128", "0128", "1023", "1024", "1025", "65536",
   "9007199254740991", "9007199254740992", "9223372036854775807", "9223372036854775808"}

MemSuffixes == {"", "Ki", "Mi", "Gi", "Xi", "M", "KiB", "Mi x"}

InitMem ==
  /\ wp = BaseIntent
  /\ osenv = [STORAGE_CLASS_NAME |-> ""]
  /\ pvc = Absent
  /\ cm = Absent
  /\ dep = Absent
  /\ fresh = [o \in {"pvc", "cm", "dep"} |-> {}]
  /\ pass = [p \in Passes |-> OffPass]
  /\ now = 0
  /\ events = 0
  /\ hist = NoHistory
  /\ ini = NoIni
  /\ call \in {[sign |-> g, digits |-> n, suffix |-> u, done |-> FALSE,
                out |-> [err |-> "", val |-> ""]] :
                 g \in MemSigns, n \in MemDigits, u \in MemSuffixes}

Convert ==
  /\ ~call.done
  /\ call' = [call EXCEPT !.done = TRUE,
                          !.out = GoMemoryToPHPMemory(call.sign \o call.digits \o call.suffix)]
  /\ Idle

SpecMem == InitMem /\ [][Convert]_vars

\* Arithmetic on decimal numerals of any length.
RECURSIVE DecStrip(_)
DecStrip(s) == IF Len(s) > 1 /\ Char(s, 1) = "0" THEN DecStrip(SubSeq(s, 2, Len(s))) ELSE s

DecNorm(s) == IF s = "" THEN "0" ELSE DecStrip(s)

RECURSIVE DecMulCarry(_, _, _)
DecMulCarry(s, m, c) ==
  IF s = "" THEN (IF c = 0 THEN "" ELSE Itoa(c))
  ELSE DecMulCarry(SubSeq(s, 1, Len(s) - 1), m, (DigitVal(Char(s, Len(s))) * m + c) \div 10)
       \o DigitChar((DigitVal(Char(s, Len(s))) * m + c) % 10)

DecMul(s, m) == DecNorm(DecMulCarry(s, m, 0))

RECURSIVE DecDivRem(_, _, _, _)
DecDivRem(s, d, r, i) ==
  IF i > Len(s) THEN ""
  ELSE DigitChar((r * 10 + DigitVal(Char(s, i))) \div d)
       \o DecDivRem(s, d, (r * 10 + DigitVal(Char(s, i))) % d, i + 1)

DecDiv(s, d) == DecNorm(DecDivRem(s, d, 0, 1))

DecLeq(a, b) ==
  LET x == DecNorm(a)
      y == DecNorm(b)
  IN  Len(x) < Len(y) \/ (Len(x) = Len(y) /\ (x = y \/ StrLess(x, y)))

\* The numeral with its sign; zero has none.
Signed(sign, numeral) == IF numeral = "0" THEN "0" ELSE sign \o numeral

\* The conversion as stated: mebibytes of <sign><digits><suffix>.
MebibytesOf(sign, digits, suffix) ==
  CASE suffix = "Ki" -> Signed(sign, DecDiv(digits, 1024))
    [] suffix = "Mi" -> Signed(sign, DecNorm(digits))
    [] suffix = "Gi" -> Signed(sign, DecMul(digits, 1024))

\* The result r ("<numeral>M") does not exceed the quantity <digits><suffix>.
WithinInput(r, digits, suffix) ==
  LET n == SubSeq(r, 1, Len(r) - 1)
  IN  \/ Char(n, 1) = "-"
      \/ CASE suffix = "Ki" -> DecLeq(DecMul(n, 1024), digits)
           [] suffix = "Mi" -> DecLeq(n, digits)
           [] suffix = "Gi" -> DecLeq(n, DecMul(digits, 1024))

\* C13: "<n>Ki" gives "<n div 1024, toward zero>M", "<n>Mi" gives "<n>M",
\* "<n>Gi" gives "<n*1024>M"; any other suffix is an unsupported-unit error; an
\* input that is not an integer followed by a suffix is a format error; and
\* for n >= 0 the result in mebibytes is at most the input quantity.
C13_Conversion ==
  call.done =>
    IF call.digits = "" \/ call.suffix = ""
    THEN call.out.err = "invalid memory format"
    ELSE IF call.suffix \in {"Ki", "Mi", "Gi"}
    THEN /\ call.out.err = ""
         /\ call.out.val = MebibytesOf(call.sign, call.digits, call.suffix) \o "M"
         /\ call.sign = "" => WithinInput(call.out.val, call.digits, call.suffix)
    ELSE call.out.err = "unsupported unit"

\* The same on inputs whose integer and product fit the 64-bit int and whose
\* suffix holds no space.
C13_ConversionInRange ==
  /\ call.done
  /\ call.digits \notin {"9007199254740992", "9223372036854775807", "9223372036854775808"}
  /\ call.suffix # "Mi x"
  => C13_Conversion

\* The stated examples.
C13_Examples ==
  /\ GoMemoryToPHPMemory("65536Ki") = [err |-> "", val |-> "64M"]
  /\ GoMemoryToPHPMemory("2Gi") = [err |-> "", val |-> "2048M"]
  /\ GoMemoryToPHPMemory("128Mi") = [err |-> "", val |-> "128M"]
  /\ GoMemoryToPHPMemory("10Xi").err = "unsupported unit"
  /\ GoMemoryToPHPMemory("-1Ki") = [err |-> "", val |-> "0M"]
  /\ GoMemoryToPHPMemory("-2049Ki") = [err |-> "", val |-> "-2M"]
  /\ GoMemoryToPHPMemory("9007199254740992Gi") = [err |-> "", val |-> "-9223372036854775808M"]
  /\ GoMemoryToPHPMemory("9223372036854775807Mi") = [err |-> "", val |-> "9223372036854775807M"]
  /\ GoMemoryToPHPMemory("-9223372036854775808Mi") = [err |-> "", val |-> "-9223372036854775808M"]

(***************************************************************************)
(* ReconcileDeployment on an existing Deployment: the store holds some     *)
(* Deployment (as created for another Intent, or as another writer left    *)
(* it), the pass runs the workload reconciler for some Intent.             *)
(***************************************************************************)
CpuLimits == {"500m", "1"}

DepEnvs ==
  Envs \cup {<<[name |-> "WORDPRESS_TABLE_PREFIX", value |-> "x_"],
               [name |-> "WP_DEBUG", value |-> "1"]>>,
             <<[name |-> "WP_CACHE", value |-> "1"], [name |-> "WP_CACHE", value |-> "0"]>>}

DepIntents ==
  {[BaseIntent EXCEPT !.image = i, !.replicas = r, !.memoryLimit = m, !.cpuLimit = c,
                      !.env = e] :
     i \in Images, r \in ReplicaCounts, m \in MemoryLimits, c \in CpuLimits, e \in DepEnvs}

\* Resource requirements found on the stored main container.
StoredResources ==
  {Resources(BaseIntent),
   Resources([BaseIntent EXCEPT !.memoryLimit = "1Gi"]),
   [Resources(BaseIntent) EXCEPT !.limits = [n \in {"memory"} |-> MustParse("256Mi")]],
   [Resources(BaseIntent) EXCEPT !.requests = [n \in {"cpu", "storage"} |-> MustParse("250m")]]}

StoredEnvs ==
  {MainEnv, Append(MainEnv, EnvVar("WP_DEBUG", "1")), Append(MainEnv, EnvVar("WP_DEBUG", "0"))}

\* Init container variables found: as created, stale, none (nil), only others.
StoredInitEnvs ==
  {InitEnv("256M"), InitEnv("1024M"), <<>>, <<EnvVar("WORDPRESS_TITLE", "")>>}

StoredDeployments ==
  {[NewDeployment(BaseIntent) EXCEPT !.image = i, !.replicas = r, !.resources = rs,
                                     !.env = ev, !.initEnv = ie] :
     i \in Images, r \in {1, 2}, rs \in StoredResources, ev \in StoredEnvs,
     ie \in StoredInitEnvs}

InitDep ==
  /\ wp \in DepIntents
  /\ osenv = [STORAGE_CLASS_NAME |-> ""]
  /\ pvc = Absent
  /\ cm = Absent
  /\ dep \in StoredDeployments
  /\ fresh = [o \in {"pvc", "cm", "dep"} |-> {}]
  /\ pass = [p \in Passes |->
               IF p = 1
               THEN [IdlePass EXCEPT !.pc = "dep_get", !.plan = "dep", !.result = "running",
                                     !.solo = TRUE]
               ELSE OffPass]
  /\ now = 0
  /\ events = 0
  /\ hist = NoHistory
  /\ ini = NoIni
  /\ call = [done |-> FALSE, observed |-> dep]

SpecDep == InitDep /\ [][DepGet(1) \/ DepUpdate(1)]_vars

\* The workload reconciler of pass 1 has returned nil.
DepConverged == Done(1) /\ pass[1].result = "ok"

\* Same names, and under each name numerically equal quantities.
SameList(a, b) == DOMAIN a = DOMAIN b /\ \A n \in DOMAIN a : a[n] = b[n]

SameResources(a, b) == SameList(a.limits, b.limits) /\ SameList(a.requests, b.requests)

\* C14: resourcesEqual of the observed and the desired requirements is true
\* exactly when both have the same names under limits and under requests with
\* equal quantities, and is the same with its arguments exchanged; and a
\* workload pass that returned nil has replaced the container's resources by
\* the desired ones, issuing its Update, when resourcesEqual was false and has
\* left them as observed when it was true.
C14_ResourcesEqual ==
  LET observed == call.observed.resources
      desired == Resources(wp)
  IN  ~ResourcesPanic(wp) =>
        /\ resourcesEqual(observed, desired) = SameResources(observed, desired)
        /\ resourcesEqual(observed, desired) = resourcesEqual(desired, observed)
        /\ DepConverged =>
             IF resourcesEqual(observed, desired)
             THEN dep.resources = observed
             ELSE dep.resources = desired /\ pass[1].calls = 1

C14_Replaced ==
  /\ DepConverged
  /\ DOMAIN call.observed.resources.limits # DOMAIN Resources(wp).limits
  /\ dep.resources = Resources(wp)
  /\ pass[1].calls = 1

(***************************************************************************)
(* The first pass for a new Intent: the store is empty and the pass runs   *)
(* the storage, configuration and workload reconcilers in that order.      *)
(***************************************************************************)
NewIntents ==
  {[BaseIntent EXCEPT !.storageSize = s, !.replicas = r, !.memoryLimit = m,
                      !.maxUploadLimit = u, !.phpConfig = c] :
     s \in StorageSizes, r \in ReplicaCounts, m \in MemoryLimits,
     u \in MaxUploadLimits, c \in PHPConfigs}

InitNew ==
  /\ wp \in NewIntents
  /\ osenv \in [STORAGE_CLASS_NAME : StorageClassNames]
  /\ pvc = Absent
  /\ cm = Absent
  /\ dep = Absent
  /\ fresh = [o \in {"pvc", "cm", "dep"} |-> {}]
  /\ pass = [p \in Passes |->
               IF p = 1
               THEN [IdlePass EXCEPT !.pc = FirstPc("all"), !.plan = "all",
                                     !.result = "running", !.solo = TRUE]
               ELSE OffPass]
  /\ now = 0
  /\ events = 0
  /\ hist = NoHistory
  /\ ini = NoIni
  /\ call = NoCall

NextNew ==
  \/ PVCGet(1) \/ PVCCreate(1)
  \/ CMCompute(1) \/ CMGet(1) \/ COUGet(1) \/ COUCreate(1)
  \/ DepGet(1) \/ DepCreate(1)

SpecNew == InitNew /\ [][NextNew]_vars

\* 5Gi of storage, no storage class in the environment, no configuration
\* overrides, no replica count.
Example5Gi ==
  /\ wp.storageSize = "5Gi"
  /\ osenv.STORAGE_CLASS_NAME = ""
  /\ wp.phpConfig = NoOverrides
  /\ wp.replicas = 0

KeysOf(content) == [i \in DOMAIN Lines(content) |-> LineKey(Lines(content)[i])]

\* C15: for the 5Gi example on an empty store the pass creates the storage
\* claim (5Gi requested, no storage class), then the configuration artifact
\* (exactly the 8 default keys, ascending), then the workload (1 replica, the
\* init container's WORDPRESS_MEMORY_LIMIT equal to the converted memory limit
\* of the Intent), with three store writes in all and no restart annotation.
C15_FirstPass ==
  Example5Gi =>
    /\ cm # Absent => pvc # Absent
    /\ dep # Absent => cm # Absent
    /\ pvc # Absent =>
         /\ pvc.size = ParseQuantity("5Gi")
         /\ pvc.storageClass = ""
    /\ cm # Absent =>
         LET keys == KeysOf(cm.php)
         IN  /\ Len(keys) = 8
             /\ {keys[i] : i \in DOMAIN keys} = DefaultKeys
             /\ \A i \in 1..(Len(keys) - 1) : StrLess(keys[i], keys[i + 1])
    /\ dep # Absent =>
         /\ dep.replicas = 1
         /\ \E i \in DOMAIN dep.initEnv :
              /\ dep.initEnv[i].name = "WORDPRESS_MEMORY_LIMIT"
              /\ dep.initEnv[i].value = GoMemoryToPHPMemory(wp.memoryLimit).val
              /\ \A j \in DOMAIN dep.initEnv \ {i} :
                   dep.initEnv[j].name # "WORDPRESS_MEMORY_LIMIT"
         /\ dep.restartedAt = ""
    /\ ~pass[1].stamped
    /\ Done(1) /\ ValidIntent(wp) =>
         /\ pass[1].result = "ok"
         /\ pass[1].calls = 3
         /\ pvc # Absent /\ cm # Absent /\ dep # Absent

C15_Created ==
  /\ Example5Gi
  /\ wp.memoryLimit = "1Gi"
  /\ Done(1)
  /\ pass[1].calls = 3
  /\ dep # Absent
  /\ dep.replicas = 1

(***************************************************************************)
(* common_labels.go: the label sets.  A label set is a function from keys  *)
(* to values; the Intent's identity is its name and its UID.               *)
(***************************************************************************)
NoLabels == [k \in {} |-> ""]

\* labels[k] = v for every k, v of extra.
SetLabels(labels, extra) ==
  [k \in DOMAIN labels \cup DOMAIN extra |-> IF k \in DOMAIN extra THEN extra[k] ELSE labels[k]]

GetIndependentCommonLabels(name, uid) ==
  [k \in {"app.kubernetes.io/managed-by", "app.kubernetes.io/part-of",
          "app.kubernetes.io/instance", "hostzero.com/resource-uid"} |->
     IF k = "app.kubernetes.io/managed-by" THEN "kubepress-operator"
     ELSE IF k = "app.kubernetes.io/part-of" THEN "kubepress"
     ELSE IF k = "app.kubernetes.io/instance" THEN name
     ELSE uid]

recommendedLabels ==
  {"app.kubernetes.io/name", "app.kubernetes.io/instance", "app.kubernetes.io/version",
   "app.kubernetes.io/component", "app.kubernetes.io/part-of", "app.kubernetes.io/managed-by"}

\* Every label of the Intent copied.
CopiedAll(userLabels) == userLabels

\* The labels of the Intent that are copied to the resource.
Copied(userLabels) ==
  [k \in DOMAIN userLabels \ recommendedLabels |-> userLabels[k]]

RECURSIVE SetAll(_, _)
SetAll(labels, extraLabels) ==
  IF extraLabels = <<>> THEN labels
  ELSE SetAll(SetLabels(labels, Head(extraLabels)), Tail(extraLabels))

GetCommonLabels(name, uid, userLabels, version, extraLabels) ==
  LET own == SetLabels(GetIndependentCommonLabels(name, uid), Copied(userLabels))
      versioned == IF version # ""
                   THEN SetLabels(own, [k \in {"app.kubernetes.io/version"} |-> version])
                   ELSE own
  IN  SetAll(versioned, extraLabels)

GetWordpressLabels(name, uid, userLabels, version, extraLabels) ==
  SetLabels(GetCommonLabels(name, uid, userLabels, version, extraLabels),
            [k \in {"app.kubernetes.io/component"} |-> "wordpress"])

GetWordpressLabelsForMatching(name, uid, extraLabels) ==
  SetAll(SetLabels(GetIndependentCommonLabels(name, uid),
                   [k \in {"app.kubernetes.io/component"} |-> "wordpress"]),
         extraLabels)

\* Inputs: the labels a user may put on the Intent, the caller's extras, the
\* VERSION of the environment.
UserLabelKeys == recommendedLabels \cup {"team", "hostzero.com/resource-uid"}

UserLabelSets == UNION {[ks -> {"mine"}] : ks \in SUBSET UserLabelKeys}

\* The extras ReconcileDeployment passes for the Deployment, its selector and
\* its pod template.
DeploymentExtraLabels == <<[k \in {"app.kubernetes.io/name"} |-> "wordpress-server"]>>

ExtraLabelLists ==
  {<<>>,
   <<[k \in {"app.kubernetes.io/name"} |-> "php-config"]>>,
   DeploymentExtraLabels,
   <<[k \in {"app.kubernetes.io/name"} |-> "wordpress"], [k \in {"team"} |-> "ops"]>>}

Versions == {"", "v1"}

UIDs == {"uid-1", "uid-2"}

\* The store and the passes at rest, for the specifications of single calls.
AtRest ==
  /\ wp = BaseIntent
  /\ osenv = [STORAGE_CLASS_NAME |-> ""]
  /\ pvc = Absent
  /\ cm = Absent
  /\ dep = Absent
  /\ fresh = [o \in {"pvc", "cm", "dep"} |-> {}]
  /\ pass = [p \in Passes |-> OffPass]
  /\ now = 0
  /\ events = 0
  /\ hist = NoHistory
  /\ ini = NoIni

InitLabels ==
  /\ AtRest
  /\ call \in {[done |-> FALSE, uid |-> u, userLabels |-> l, version |-> v, extraLabels |-> e,
                common |-> NoLabels, wordpress |-> NoLabels, matching |-> NoLabels] :
                 u \in UIDs, l \in UserLabelSets, v \in Versions, e \in ExtraLabelLists}

Label ==
  /\ ~call.done
  /\ call' = [call EXCEPT
                !.done = TRUE,
                !.common = GetCommonLabels(SiteName, call.uid, call.userLabels, call.version,
                                           call.extraLabels),
                !.wordpress = GetWordpressLabels(SiteName, call.uid, call.userLabels,
                                                 call.version, call.extraLabels),
                !.matching = GetWordpressLabelsForMatching(SiteName, call.uid,
                                                           call.extraLabels)]
  /\ Idle

SpecLabels == InitLabels /\ [][Label]_vars

NoLabel == "<none>"

LabelOf(labels, k) == IF k \in DOMAIN labels THEN labels[k] ELSE NoLabel

\* C16: under each of the six reserved keys the label sets returned for the
\* Intent hold what they hold for any other user labels on the same Intent
\* (same identity, same extras, same VERSION): the same value, or no value.
C16_ReservedKeysIndependent ==
  call.done =>
    \A other \in UserLabelSets :
      LET common == GetCommonLabels(SiteName, call.uid, other, call.version,
                                    call.extraLabels)
          wordpress == GetWordpressLabels(SiteName, call.uid, other, call.version,
                                          call.extraLabels)
      IN  \A k \in recommendedLabels :
            /\ LabelOf(call.common, k) = LabelOf(common, k)
            /\ LabelOf(call.wordpress, k) = LabelOf(wordpress, k)

\* The user has set every reserved key and the caller none.
C16_UserSetsReserved ==
  /\ call.done
  /\ recommendedLabels \subseteq DOMAIN call.userLabels
  /\ call.extraLabels = <<>>
  /\ call.version = ""
  /\ LabelOf(call.wordpress, "app.kubernetes.io/name") = NoLabel
  /\ LabelOf(call.wordpress, "app.kubernetes.io/instance") = SiteName
  /\ LabelOf(call.wordpress, "team") = "mine"

(***************************************************************************)
(* common_labels.go: SetCondition on wp.Status.Conditions.  A call is made *)
(* at generation, when the clock shows lastTransitionTime.                 *)
(***************************************************************************)
MaxSets == 3

ConditionTypes == {"Ready", "Progressing", "Degraded"}
ConditionStatuses == {"True", "False"}
Reasons == {"Reconciling", "Failed"}
Generations == {1, 2}

Condition(type, status, generation, time, reason) ==
  [type |-> type, status |-> status, observedGeneration |-> generation,
   lastTransitionTime |-> time, reason |-> reason, message |-> reason \o "."]

\* Every call appends.
AppendCondition(conditions, condition) == Append(conditions, condition)

\* The loop returns at the first entry of the type, replacing it when status,
\* reason or message differ; without such an entry the condition is appended.
SetCondition(conditions, condition) ==
  IF \E i \in DOMAIN conditions : conditions[i].type = condition.type
  THEN LET i == CHOOSE i \in DOMAIN conditions :
                  /\ conditions[i].type = condition.type
                  /\ \A j \in 1..(i - 1) : conditions[j].type # condition.type
           c == conditions[i]
       IN  IF c.status # condition.status \/ c.reason # condition.reason
              \/ c.message # condition.message
           THEN [conditions EXCEPT ![i] = condition]
           ELSE conditions
  ELSE Append(conditions, condition)

InitialConditions ==
  {<<>>,
   <<Condition("Ready", "False", 1, 0, "Reconciling")>>,
   <<Condition("Progressing", "True", 1, 0, "Reconciling"),
     Condition("Ready", "False", 1, 0, "Failed")>>}

InitConditions ==
  /\ AtRest
  /\ call \in {[done |-> FALSE, sets |-> 0, conditions |-> c, before |-> c,
                set |-> Condition("", "", 0, 0, "")] : c \in InitialConditions}

Set ==
  /\ call.sets < MaxSets
  /\ \E t \in ConditionTypes, s \in ConditionStatuses, g \in Generations, r \in Reasons :
       LET condition == Condition(t, s, g, call.sets + 1, r)
       IN  call' = [done |-> TRUE, sets |-> call.sets + 1, before |-> call.conditions,
                    set |-> condition,
                    conditions |-> SetCondition(call.conditions, condition)]
  /\ Idle

SpecConditions == InitConditions /\ [][Set]_vars

TypesOf(conditions) == {conditions[i].type : i \in DOMAIN conditions}

\* C17: after any calls the conditions hold no type twice; a call for a type
\* already held leaves the number and the order of the entries, and every
\* entry of another type, as they were; a call for a new type leaves the
\* entries as they were and adds one entry, of that type, at the end.
C17_OnePerType ==
  /\ \A i, j \in DOMAIN call.conditions :
       call.conditions[i].type = call.conditions[j].type => i = j
  /\ call.done =>
       IF call.set.type \in TypesOf(call.before)
       THEN /\ Len(call.conditions) = Len(call.before)
            /\ \A i \in DOMAIN call.before :
                 /\ call.conditions[i].type = call.before[i].type
                 /\ call.before[i].type # call.set.type =>
                      call.conditions[i] = call.before[i]
       ELSE /\ Len(call.conditions) = Len(call.before) + 1
            /\ SubSeq(call.conditions, 1, Len(call.before)) = call.before
            /\ call.conditions[Len(call.conditions)].type = call.set.type

\* An entry in the middle was replaced after another was appended.
C17_ReplacedInPlace ==
  /\ call.done
  /\ Len(call.conditions) = 3
  /\ call.set.type = call.before[2].type
  /\ call.conditions[2] = call.set
  /\ call.conditions[2] # call.before[2]

\* The value of the init container's WORDPRESS_MEMORY_LIMIT, NoLabel without one.
InitMemoryLimit(d) ==
  IF \E i \in DOMAIN d.initEnv : d.initEnv[i].name = "WORDPRESS_MEMORY_LIMIT"
  THEN d.initEnv[CHOOSE i \in DOMAIN d.initEnv :
                   d.initEnv[i].name = "WORDPRESS_MEMORY_LIMIT"].value
  ELSE NoLabel

\* The observed Deployment differs from the Intent on one of the five points.
Differs(observed, w) ==
  \/ observed.image # w.image
  \/ observed.replicas # w.replicas
  \/ ~SameResources(observed.resources, Resources(w))
  \/ \E i \in DOMAIN w.env : w.env[i].name \notin EnvNames(observed.env)
  \/ InitMemoryLimit(observed) # GoMemoryToPHPMemory(w.memoryLimit).val

\* C18: a workload pass on an existing Deployment, for an Intent whose memory
\* limit converts, issues no Create and at most one Update, and issues the
\* Update exactly when image, replica count, resources, an Intent variable
\* absent by name or the init container's memory variable differ from the Intent.
C18_UpdateIffDiffers ==
  /\ pass[1].pc # "dep_create"
  /\ pass[1].calls <= 1
  /\ Done(1) /\ ValidIntent(wp) => (pass[1].calls = 1 <=> Differs(call.observed, wp))

\* The same, the init containers with variables but no memory variable left out.
C18_UnlessVariableMissing ==
  \/ call.observed.initEnv # <<>> /\ InitMemoryLimit(call.observed) = NoLabel
  \/ C18_UpdateIffDiffers

C18_OneUpdate ==
  /\ DepConverged
  /\ pass[1].calls = 1
  /\ call.observed.image = wp.image
  /\ call.observed.replicas = wp.replicas
  /\ InitMemoryLimit(call.observed) = "256M"
  /\ InitMemoryLimit(dep) = "1024M"

Absent_(w, env) == SelectSeq(w.env, LAMBDA e : e.name \notin EnvNames(env))

\* C19: updateEnvVars leaves the variables of the main container as they are
\* and in their order, and appends the Intent's variables whose names the
\* container does not have, and no other; when only variables differ, the
\* pass issues its Update exactly when one was appended.
C19_AppendsAbsentOnly ==
  LET env == call.observed.env
      out == updateEnvVars(env, wp.env)
      new == Absent_(wp, env)
  IN  /\ Len(out) = Len(env) + Len(new)
      /\ SubSeq(out, 1, Len(env)) = env
      /\ \A i \in DOMAIN new :
           /\ out[Len(env) + i].name = new[i].name
           /\ out[Len(env) + i].value = new[i].value
      /\ DepConverged => dep.env = out
      /\ DepConverged /\ ~Differs(call.observed, [wp EXCEPT !.env = <<>>]) =>
           (pass[1].calls = 1 <=> new # <<>>)

C19_Appended ==
  /\ DepConverged
  /\ Len(wp.env) = 2
  /\ Len(dep.env) = Len(call.observed.env) + 1
  /\ dep.env[Len(dep.env)].name = "WP_DEBUG"
  /\ dep.env[5].value = "wp_"

\* C20: after a workload pass on an existing Deployment has returned nil, the
\* init container's WORDPRESS_MEMORY_LIMIT is the converted memory limit of the
\* Intent, whatever the variables of the init container were before.
C20_InitMemorySynced ==
  DepConverged => InitMemoryLimit(dep) = GoMemoryToPHPMemory(wp.memoryLimit).val

\* The same for the init containers that had the variable, or no variable at all.
C20_SyncedWhenStaleOrEmpty ==
  DepConverged /\ (call.observed.initEnv = <<>> \/ InitMemoryLimit(call.observed) # NoLabel)
    => InitMemoryLimit(dep) = GoMemoryToPHPMemory(wp.memoryLimit).val

(***************************************************************************)
(* Failures: a memory limit that does not convert, reads that fail.        *)
(***************************************************************************)
Malformed(w) == PHPMemory(w.memoryLimit).err # ""

\* The step of pass p that converts the memory limit: the computation of the
\* configuration content, the read of the Deployment.
Converts(p) == pass[p].pc \in {"cm_compute", "dep_get"} /\ pass'[p] # pass[p]

\* C21: with a memory limit that GoMemoryToPHPMemory refuses, the step of the
\* configuration reconciler and of the workload reconciler (Deployment absent
\* or present) that converts it ends the reconciler with an error, with no
\* store call made and nothing stored changed.
C21_MalformedIsError ==
  [][\A p \in Passes :
       Converts(p) /\ Malformed(wp) =>
         /\ pass'[p].pc = "done"
         /\ pass'[p].result = "error"
         /\ pass'[p].calls = pass[p].calls
         /\ UNCHANGED <<pvc, cm, dep>>]_vars

\* The same, a crash counted as a failure like an error.
C21_MalformedFails ==
  [][\A p \in Passes :
       Converts(p) /\ Malformed(wp) =>
         /\ pass'[p].pc = "done"
         /\ pass'[p].result \in {"error", "panic"}
         /\ pass'[p].calls = pass[p].calls
         /\ UNCHANGED <<pvc, cm, dep>>]_vars

\* Pass p takes a step from the initial read of one of the three reconcilers.
InitialRead(p) ==
  pass[p].pc \in {"pvc_get", "cm_get", "dep_get"} /\ pass'[p] # pass[p]

\* The object the initial read at pc asks for.
\* The step is a store call that failed with the injected store error.
Failed == events' # events

ReadObject(pc) == IF pc = "pvc_get" THEN pvc ELSE IF pc = "cm_get" THEN cm ELSE dep

\* C22: an initial read that fails with a store error other than not-found
\* ends the reconciler with an error, the store's own error for the storage
\* and the configuration reconciler and that error wrapped with the workload's
\* name for the workload reconciler, with no Create or Update issued; an
\* initial read that finds nothing returns no error and the reconciler goes on
\* to the creation.
C22_ReadErrors ==
  [][\A p \in Passes :
       InitialRead(p) =>
         /\ Failed =>
              /\ pass'[p].pc = "done"
              /\ pass'[p].result = "error"
              /\ pass'[p].err = IF pass[p].pc = "dep_get"
                                THEN "failed to get deployment blog: internal error"
                                ELSE "internal error"
              /\ pass'[p].calls = pass[p].calls
              /\ UNCHANGED <<pvc, cm, dep>>
         /\ ~Failed /\ ReadObject(pass[p].pc) = Absent /\ ValidIntent(wp) =>
              /\ pass'[p].result = "running"
              /\ pass'[p].err = ""
              /\ pass'[p].pc = (IF pass[p].pc = "pvc_get" THEN "pvc_create"
                                ELSE IF pass[p].pc = "cm_get" THEN "cou_get"
                                ELSE "dep_create")]_vars

C22_WorkloadReadFailed ==
  \E p \in Passes :
    /\ Done(p)
    /\ pass[p].faulted
    /\ pass[p].err = "failed to get deployment blog: internal error"
    /\ pass[p].calls = 0
    /\ "cm" \in pass[p].ok

\* C23: in the restart step of a configuration reconciler that found the
\* content changed, a read that finds no Deployment ends the reconciler with
\* nil and no write to the Deployment, and a read that fails with another
\* store error ends it with that error.
C23_RestartReadErrors ==
  [][\A p \in Passes :
       pass[p].pc = "restart_get" /\ pass'[p] # pass[p] =>
         /\ ~Failed /\ dep = Absent =>
              /\ "cm" \in pass'[p].ok
              /\ pass'[p].err = ""
              /\ pass'[p].calls = pass[p].calls
              /\ dep' = Absent
         /\ Failed =>
              /\ pass'[p].result = "error"
              /\ pass'[p].err = StoreError]_vars

\* The part of it about the Deployment that is not found.
C23_NotFoundIsNil ==
  [][\A p \in Passes :
       pass[p].pc = "restart_get" /\ pass'[p] # pass[p] /\ ~Failed /\ dep = Absent =>
         /\ "cm" \in pass'[p].ok
         /\ pass'[p].err = ""
         /\ pass'[p].calls = pass[p].calls
         /\ dep' = Absent]_vars

\* The entry of the type in conditions.
ConditionOf(conditions, type) ==
  conditions[CHOOSE i \in DOMAIN conditions : conditions[i].type = type]

\* C24: after SetCondition at some generation, the condition of the type set
\* has that generation as its observedGeneration, also when a condition of
\* the type with the same status, reason and message was there before.
C24_GenerationObserved ==
  call.done =>
    ConditionOf(call.conditions, call.set.type).observedGeneration
      = call.set.observedGeneration

\* The same for the calls that change status, reason or message, or add the type.
C24_ObservedWhenChanged ==
  call.done =>
    \/ /\ call.set.type \in TypesOf(call.before)
       /\ ConditionOf(call.before, call.set.type).status = call.set.status
       /\ ConditionOf(call.before, call.set.type).reason = call.set.reason
       /\ ConditionOf(call.before, call.set.type).message = call.set.message
    \/ ConditionOf(call.conditions, call.set.type).observedGeneration
         = call.set.observedGeneration

\* C25: the labels ReconcileDeployment puts on the pod template hold every
\* label of the selector it builds, with the same value, whatever the user
\* labels of the Intent are; and the selector's labels are those of an Intent
\* of the same identity without user labels and without VERSION.
C25_TemplateMatchesSelector ==
  call.done /\ call.extraLabels = DeploymentExtraLabels =>
    /\ \A k \in DOMAIN call.matching : LabelOf(call.wordpress, k) = call.matching[k]
    /\ \A k \in DOMAIN call.matching :
         call.matching[k]
           = LabelOf(SetAll(GetWordpressLabels(SiteName, call.uid, NoLabels, "", <<>>),
                            call.extraLabels), k)

\* The same for the Intents without a user label under the key of the UID.
C25_MatchesUnlessUIDLabelled ==
  "hostzero.com/resource-uid" \in DOMAIN call.userLabels \/ C25_TemplateMatchesSelector

\* C26: for an Intent without a storage size the storage reconciler creates
\* the claim with 10Gi, and a storage reconciler that reads that claim returns
\* nil without a write.
C26_DefaultSize ==
  [][\A p \in Passes :
       wp.storageSize = "" /\ ~Failed /\ pass'[p] # pass[p] =>
         /\ pass[p].pc = "pvc_create" /\ pvc = Absent =>
              pvc'.size = ParseQuantity("10Gi")
         /\ pass[p].pc = "pvc_get" /\ pvc # Absent /\ pvc.size = ParseQuantity("10Gi") =>
              /\ "pvc" \in pass'[p].ok
              /\ pass'[p].result \in {"running", "ok"}
              /\ pass'[p].calls = pass[p].calls
              /\ pvc' = pvc]_vars

\* The part of it about the creation.
C26_CreatedWithDefault ==
  [][\A p \in Passes :
       wp.storageSize = "" /\ ~Failed /\ pass[p].pc = "pvc_create" /\ pvc = Absent =>
         pvc'.size = ParseQuantity("10Gi")]_vars

\* Pass p's CreateOrUpdate stores other content than was stored, the Deployment
\* existing.
ReplacesContent(p) ==
  pass[p].pc = "cou_update" /\ cm'.php # cm.php /\ dep # Absent

\* C27: a configuration reconciler whose CreateOrUpdate replaces the stored
\* content by other content while the Deployment exists goes on to the
\* restart, also when the stored ConfigMap had no php.ini entry; and the
\* restart, its store calls not failing, writes the annotation.
C27_ReplacedMeansRestart ==
  [][\A p \in Passes :
       /\ ReplacesContent(p) => pass'[p].pc = "restart_get"
       /\ pass[p].pc = "restart_get" /\ dep # Absent /\ ~Failed /\ pass'[p] # pass[p] =>
            pass'[p].pc = "restart_update"
       /\ pass[p].pc = "restart_update" /\ p \in fresh.dep /\ ~Failed /\ pass'[p] # pass[p] =>
            /\ pass'[p].stamped
            /\ dep'.restartedAt = Itoa(now)]_vars

\* The same for the ConfigMaps stored with a php.ini entry, one pass at a time.
C27_RestartUnlessNoKey ==
  [][\A p \in Passes :
       ReplacesContent(p) /\ cm.php # NoKey => pass'[p].pc = "restart_get"]_vars

\* Pass p writes the restart annotation of a Deployment that has one.
StampsAgain(p) ==
  /\ pass[p].pc = "restart_update"
  /\ pass'[p].stamped
  /\ dep.restartedAt # ""

\* C28: when a configuration reconciler that found the content changed writes
\* the restart annotation of a Deployment that an earlier one has stamped, the
\* annotation's value after the write differs from its value before, whatever
\* the clock shows.
C28_StampDiffers ==
  [][\A p \in Passes : StampsAgain(p) => dep'.restartedAt # dep.restartedAt]_vars

\* The same for a write in a later second than the stamp found.
C28_DiffersInLaterSecond ==
  [][\A p \in Passes :
       StampsAgain(p) /\ dep.restartedAt # Itoa(now) => dep'.restartedAt # dep.restartedAt]_vars

\* C29: after a workload pass on an existing Deployment whose image was not
\* the Intent's has returned nil, the main container and the init container
\* both have the Intent's image.
C29_BothImages ==
  DepConverged /\ call.observed.image # wp.image =>
    /\ dep.image = wp.image
    /\ dep.initImage = wp.image

\* The part of it about the main container.
C29_MainImage ==
  DepConverged /\ call.observed.image # wp.image => dep.image = wp.image

====
